---- MODULE Spec2Model ----
(***************************************************************************)
(* Memory Lifecycle Engine of openclaw-persona: decay (forgetting),        *)
(* consolidation planning, reinforcement and candidate ranking.            *)
(*                                                                         *)
(* Numbers are fixed point: a real x is the integer floor(x * Unit).  A    *)
(* JavaScript number is a record [k, v]: k = "fin" with value v, "nan"     *)
(* (NaN) or "ninf" (-Infinity).  Time is counted in ticks of half a day.   *)
(***************************************************************************)
EXTENDS Integers, Sequences, FiniteSets, TLC

VARIABLES clock, memories, candidates, similarityPairs, ret, workspace

vars == <<clock, memories, candidates, similarityPairs, ret, workspace>>

(* ---------------------------- bounds ----------------------------------- *)
MaxClock == 5
MaxRecords == 3
MaxPairs == 3
MaxCandidates == 3
MaxMention == 5
MaxAccess == 11
MaxInits == 3

(* ------------------------- fixed-point numbers ------------------------- *)
Unit == 1000000
TicksPerDay == 2

Fin(x) == [k |-> "fin", v |-> x]
NaN == [k |-> "nan", v |-> 0]
NegInf == [k |-> "ninf", v |-> 0]

Min(a, b) == IF a < b THEN a ELSE b
Max(a, b) == IF a > b THEN a ELSE b

\* LnTable[n] = floor(ln(n / TicksPerDay) * Unit), n = 1 .. 420
LnTable == <<
    -693148, 0, 405465, 693147, 916290, 1098612, 1252762, 1386294,
    1504077, 1609437, 1704748, 1791759, 1871802, 1945910, 2014903, 2079441,
    2140066, 2197224, 2251291, 2302585, 2351375, 2397895, 2442347, 2484906,
    2525728, 2564949, 2602689, 2639057, 2674148, 2708050, 2740840, 2772588,
    2803360, 2833213, 2862200, 2890371, 2917770, 2944438, 2970414, 2995732,
    3020424, 3044522, 3068052, 3091042, 3113515, 3135494, 3157000, 3178053,
    3198673, 3218875, 3238678, 3258096, 3277144, 3295836, 3314186, 3332204,
    3349904, 3367295, 3384390, 3401197, 3417726, 3433987, 3449987, 3465735,
    3481240, 3496507, 3511545, 3526360, 3540959, 3555348, 3569532, 3583518,
    3597312, 3610917, 3624340, 3637586, 3650658, 3663561, 3676300, 3688879,
    3701301, 3713572, 3725693, 3737669, 3749504, 3761200, 3772760, 3784189,
    3795489, 3806662, 3817712, 3828641, 3839452, 3850147, 3860729, 3871201,
    3881563, 3891820, 3901972, 3912023, 3921973, 3931825, 3941581, 3951243,
    3960813, 3970291, 3979681, 3988984, 3998200, 4007333, 4016383, 4025351,
    4034240, 4043051, 4051784, 4060443, 4069026, 4077537, 4085976, 4094344,
    4102643, 4110873, 4119037, 4127134, 4135166, 4143134, 4151039, 4158883,
    4166665, 4174387, 4182050, 4189654, 4197201, 4204692, 4212127, 4219507,
    4226833, 4234106, 4241326, 4248495, 4255612, 4262679, 4269697, 4276666,
    4283586, 4290459, 4297285, 4304065, 4310799, 4317488, 4324132, 4330733,
    4337290, 4343805, 4350277, 4356708, 4363098, 4369447, 4375757, 4382026,
    4388257, 4394449, 4400603, 4406719, 4412798, 4418840, 4424846, 4430816,
    4436751, 4442651, 4448516, 4454347, 4460144, 4465908, 4471638, 4477336,
    4483002, 4488636, 4494238, 4499809, 4505349, 4510859, 4516338, 4521788,
    4527208, 4532599, 4537961, 4543294, 4548599, 4553876, 4559126, 4564348,
    4569543, 4574710, 4579852, 4584967, 4590056, 4595119, 4600157, 4605170,
    4610157, 4615120, 4620058, 4624972, 4629862, 4634728, 4639571, 4644390,
    4649187, 4653960, 4658710, 4663439, 4668144, 4672828, 4677490, 4682131,
    4686750, 4691347, 4695924, 4700480, 4705015, 4709530, 4714024, 4718498,
    4722953, 4727387, 4731802, 4736198, 4740574, 4744932, 4749270, 4753590,
    4757891, 4762173, 4766438, 4770684, 4774912, 4779123, 4783316, 4787491,
    4791649, 4795790, 4799914, 4804021, 4808111, 4812184, 4816241, 4820281,
    4824305, 4828313, 4832305, 4836281, 4840242, 4844187, 4848116, 4852030,
    4855928, 4859812, 4863680, 4867534, 4871373, 4875197, 4879006, 4882801,
    4886582, 4890349, 4894101, 4897839, 4901564, 4905274, 4908971, 4912654,
    4916324, 4919980, 4923623, 4927253, 4930870, 4934473, 4938064, 4941642,
    4945207, 4948759, 4952299, 4955827, 4959341, 4962844, 4966335, 4969813,
    4973279, 4976733, 4980176, 4983606, 4987025, 4990432, 4993828, 4997212,
    5000584, 5003946, 5007296, 5010635, 5013963, 5017279, 5020585, 5023880,
    5027164, 5030437, 5033700, 5036952, 5040194, 5043425, 5046645, 5049856,
    5053056, 5056245, 5059425, 5062595, 5065754, 5068904, 5072043, 5075173,
    5078293, 5081404, 5084505, 5087596, 5090678, 5093750, 5096812, 5099866,
    5102910, 5105945, 5108971, 5111987, 5114995, 5117993, 5120983, 5123963,
    5126935, 5129898, 5132852, 5135798, 5138735, 5141663, 5144583, 5147494,
    5150397, 5153291, 5156177, 5159055, 5161924, 5164785, 5167639, 5170483,
    5173320, 5176149, 5178970, 5181783, 5184588, 5187385, 5190175, 5192956,
    5195730, 5198497, 5201255, 5204006, 5206750, 5209486, 5212214, 5214935,
    5217649, 5220355, 5223054, 5225746, 5228431, 5231108, 5233778, 5236441,
    5239098, 5241747, 5244389, 5247024, 5249652, 5252273, 5254887, 5257495,
    5260096, 5262690, 5265277, 5267858, 5270432, 5272999, 5275560, 5278114,
    5280662, 5283203, 5285738, 5288267, 5290789, 5293304, 5295814, 5298317,
    5300814, 5303304, 5305789, 5308267, 5310739, 5313205, 5315666, 5318119,
    5320567, 5323009, 5325446, 5327876, 5330300, 5332718, 5335131, 5337538,
    5339939, 5342334, 5344723, 5347107
>>

\* Math.log of the real n / TicksPerDay
MathLog(n) ==
    IF n < 0 THEN NaN
    ELSE IF n = 0 THEN NegInf
    ELSE Fin(LnTable[n])

\* Math.min(1, Math.max(0, x)) for a JavaScript number x
Clamp01(x) ==
    IF x.k = "nan" THEN NaN
    ELSE IF x.k = "ninf" THEN Fin(0)
    ELSE Fin(Min(Unit, Max(0, x.v)))

\* x > t for a JavaScript number x and a finite t (false for NaN)
JsGreater(x, t) == x.k = "fin" /\ x.v > t

Range(s) == {s[n] : n \in 1..Len(s)}

(* -------------------------- Array.prototype ---------------------------- *)
\* One insertion step of a stable sort: x goes right after the last element
\* that the comparator does not order after x.
InsertSorted(t, x, compareFn) ==
    LET notAfter == {j \in 1..Len(t) : compareFn[t[j], x] <= 0}
        p == IF notAfter = {} THEN 0
             ELSE CHOOSE j \in notAfter : \A k \in notAfter : k <= j
    IN  SubSeq(t, 1, p) \o <<x>> \o SubSeq(t, p + 1, Len(t))

\* Array.prototype.sort(compareFn): stable since ES2019; compareFn is a
\* function of two elements of s
ArraySort(s, compareFn) ==
    LET sorted[n \in 0..Len(s)] ==
            IF n = 0 THEN <<>> ELSE InsertSorted(sorted[n - 1], s[n], compareFn)
    IN  sorted[Len(s)]

\* a hand-written dedup whose accumulator is seeded with s[0]: undefined
\* when s is empty
SetSpread_SeedsFirst(s) ==
    LET kept[n \in 0..Len(s)] ==
            IF n = 0 THEN <<IF Len(s) = 0 THEN "undefined" ELSE s[1]>>
            ELSE IF \E j \in 1..(n - 1) : s[j] = s[n] \/ s[n] = s[1] THEN kept[n - 1]
            ELSE Append(kept[n - 1], s[n])
    IN  kept[Len(s)]

\* [...new Set(s)]: first occurrences, in insertion order
SetSpread(s) ==
    LET kept[n \in 0..Len(s)] ==
            IF n = 0 THEN <<>>
            ELSE IF \E j \in 1..(n - 1) : s[j] = s[n] THEN kept[n - 1]
            ELSE Append(kept[n - 1], s[n])
    IN  kept[Len(s)]

(* ----------------------------- forgetting.ts --------------------------- *)
\* the time since the last access computed as lastAccessedAt - now
calculateDecay_ReversedAccessAge(memory, now) ==
    LET ageTicks == now - memory.createdAt
        lastAccessTicks == memory.lastAccessedAt - now
        lnAge == MathLog(ageTicks + TicksPerDay)
        lnAccess == MathLog(lastAccessTicks + TicksPerDay)
        accessFrequency == Unit \div (memory.accessCount + 1)
        importanceFactor == Unit - memory.importance
        decay ==
            IF lnAge.k = "nan" \/ lnAccess.k = "nan" THEN NaN
            ELSE IF lnAge.k = "ninf" \/ lnAccess.k = "ninf" THEN NegInf
            ELSE Fin(((lnAge.v \div 10) * 2 + (lnAccess.v \div 5) * 3
                      + accessFrequency * 2 + importanceFactor * 3) \div 10)
    IN  Clamp01(decay)

\* the age computed as createdAt - now
calculateDecay_ReversedAge(memory, now) ==
    LET ageTicks == memory.createdAt - now
        lastAccessTicks == now - memory.lastAccessedAt
        lnAge == MathLog(ageTicks + TicksPerDay)
        lnAccess == MathLog(lastAccessTicks + TicksPerDay)
        accessFrequency == Unit \div (memory.accessCount + 1)
        importanceFactor == Unit - memory.importance
        decay ==
            IF lnAge.k = "nan" \/ lnAccess.k = "nan" THEN NaN
            ELSE IF lnAge.k = "ninf" \/ lnAccess.k = "ninf" THEN NegInf
            ELSE Fin(((lnAge.v \div 10) * 2 + (lnAccess.v \div 5) * 3
                      + accessFrequency * 2 + importanceFactor * 3) \div 10)
    IN  Clamp01(decay)

calculateDecay(memory, now) ==
    LET ageTicks == now - memory.createdAt
        lastAccessTicks == now - memory.lastAccessedAt
        lnAge == MathLog(ageTicks + TicksPerDay)
        lnAccess == MathLog(lastAccessTicks + TicksPerDay)
        accessFrequency == Unit \div (memory.accessCount + 1)
        importanceFactor == Unit - memory.importance
        decay ==
            IF lnAge.k = "nan" \/ lnAccess.k = "nan" THEN NaN
            ELSE IF lnAge.k = "ninf" \/ lnAccess.k = "ninf" THEN NegInf
            ELSE Fin(((lnAge.v \div 10) * 2 + (lnAccess.v \div 5) * 3
                      + accessFrequency * 2 + importanceFactor * 3) \div 10)
    IN  Clamp01(decay)

WithDecayScore(m, d) ==
    [id |-> m.id, text |-> m.text, type |-> m.type, importance |-> m.importance,
     createdAt |-> m.createdAt, lastAccessedAt |-> m.lastAccessedAt,
     accessCount |-> m.accessCount, decayScore |-> d]

\* (a, b) => b.decayScore - a.decayScore, over the elements of s
DecayDescending(s) ==
    [a \in Range(s), b \in Range(s) |-> b.decayScore.v - a.decayScore.v]

\* the filter written with >= : a record exactly at the threshold is kept
getDecayedMemories_NonStrict(mems, threshold, reads) ==
    LET mapped == [i \in 1..Len(mems) |->
                     WithDecayScore(mems[i], calculateDecay(mems[i], reads[i]))]
        filtered == SelectSeq(mapped, LAMBDA m :
                        m.decayScore.k = "fin" /\ m.decayScore.v >= threshold)
    IN  ArraySort(filtered, DecayDescending(filtered))

\* reads[i] is what new Date() returns when record i is mapped
getDecayedMemories(mems, threshold, reads) ==
    LET mapped == [i \in 1..Len(mems) |->
                     WithDecayScore(mems[i], calculateDecay(mems[i], reads[i]))]
        filtered == SelectSeq(mapped, LAMBDA m : JsGreater(m.decayScore, threshold))
    IN  ArraySort(filtered, DecayDescending(filtered))

MergeThreshold == 900000
StrengthenThreshold == 700000

\* the merge test written with >= : a pair of exactly 0.9 is merged
consolidateMemories_MergeAtEqual(mems, pairs) ==
    LET loop[n \in 0..Len(pairs)] ==
            IF n = 0 THEN [toMerge |-> <<>>, toStrengthen |-> <<>>]
            ELSE LET acc == loop[n - 1]
                     id1 == pairs[n][1]
                     id2 == pairs[n][2]
                     similarity == pairs[n][3]
                 IN  IF similarity >= MergeThreshold
                     THEN [acc EXCEPT !.toMerge = Append(@, <<id1, id2>>)]
                     ELSE IF similarity > StrengthenThreshold
                     THEN [acc EXCEPT !.toStrengthen = @ \o <<id1, id2>>]
                     ELSE acc
        out == loop[Len(pairs)]
    IN  [toMerge |-> out.toMerge, toStrengthen |-> SetSpread(out.toStrengthen)]

\* toStrengthen returned as pushed, without the Set
consolidateMemories_NoDedup(mems, pairs) ==
    LET loop[n \in 0..Len(pairs)] ==
            IF n = 0 THEN [toMerge |-> <<>>, toStrengthen |-> <<>>]
            ELSE LET acc == loop[n - 1]
                     id1 == pairs[n][1]
                     id2 == pairs[n][2]
                     similarity == pairs[n][3]
                 IN  IF similarity > MergeThreshold
                     THEN [acc EXCEPT !.toMerge = Append(@, <<id1, id2>>)]
                     ELSE IF similarity > StrengthenThreshold
                     THEN [acc EXCEPT !.toStrengthen = @ \o <<id1, id2>>]
                     ELSE acc
    IN  loop[Len(pairs)]

\* the second test written as a separate if, without the else
consolidateMemories_NoElse(mems, pairs) ==
    LET loop[n \in 0..Len(pairs)] ==
            IF n = 0 THEN [toMerge |-> <<>>, toStrengthen |-> <<>>]
            ELSE LET acc == loop[n - 1]
                     id1 == pairs[n][1]
                     id2 == pairs[n][2]
                     similarity == pairs[n][3]
                     merged == IF similarity > MergeThreshold
                               THEN [acc EXCEPT !.toMerge = Append(@, <<id1, id2>>)]
                               ELSE acc
                 IN  IF similarity > StrengthenThreshold
                     THEN [merged EXCEPT !.toStrengthen = @ \o <<id1, id2>>]
                     ELSE merged
        out == loop[Len(pairs)]
    IN  [toMerge |-> out.toMerge, toStrengthen |-> SetSpread(out.toStrengthen)]

consolidateMemories(mems, pairs) ==
    LET loop[n \in 0..Len(pairs)] ==
            IF n = 0 THEN [toMerge |-> <<>>, toStrengthen |-> <<>>]
            ELSE LET acc == loop[n - 1]
                     id1 == pairs[n][1]
                     id2 == pairs[n][2]
                     similarity == pairs[n][3]
                 IN  IF similarity > MergeThreshold
                     THEN [acc EXCEPT !.toMerge = Append(@, <<id1, id2>>)]
                     ELSE IF similarity > StrengthenThreshold
                     THEN [acc EXCEPT !.toStrengthen = @ \o <<id1, id2>>]
                     ELSE acc
        out == loop[Len(pairs)]
    IN  [toMerge |-> out.toMerge, toStrengthen |-> SetSpread(out.toStrengthen)]

StrengthenStep == 100000

\* the importance raised without the cap at 1
strengthenMemory_NoCap(memory, now) ==
    [memory EXCEPT !.importance = memory.importance + StrengthenStep,
                   !.lastAccessedAt = now,
                   !.accessCount = memory.accessCount + 1]

\* new Date() written to createdAt instead of lastAccessedAt
strengthenMemory_ResetsCreatedAt(memory, now) ==
    [memory EXCEPT !.importance = Min(Unit, memory.importance + StrengthenStep),
                   !.createdAt = now,
                   !.accessCount = memory.accessCount + 1]

\* accessCount copied without the increment
strengthenMemory_NoCount(memory, now) ==
    [memory EXCEPT !.importance = Min(Unit, memory.importance + StrengthenStep),
                   !.lastAccessedAt = now]

\* the importance lowered by the step instead of raised
strengthenMemory_Weakens(memory, now) ==
    [memory EXCEPT !.importance = Max(0, memory.importance - StrengthenStep),
                   !.lastAccessedAt = now,
                   !.accessCount = memory.accessCount + 1]

strengthenMemory(memory, now) ==
    [memory EXCEPT !.importance = Min(Unit, memory.importance + StrengthenStep),
                   !.lastAccessedAt = now,
                   !.accessCount = memory.accessCount + 1]

(* --------------------------- auto-formation.ts ------------------------- *)
\* deduplicateCandidates(candidates, existingMemories, similarityThreshold):
\* the body is `return candidates`; neither existingMemories nor the
\* threshold is read
deduplicateCandidates(cands, existingMemories, similarityThreshold) == cands

\* (a, b) => b.importance - a.importance, over the elements of s
ImportanceDescending(s) ==
    [a \in Range(s), b \in Range(s) |-> b.importance - a.importance]

ImportanceAscending(s) ==
    [a \in Range(s), b \in Range(s) |-> a.importance - b.importance]

\* the comparator with its operands swapped
rankCandidates_Ascending(cands) == ArraySort(cands, ImportanceAscending(cands))

\* Array.prototype.sort sorts the receiver in place and returns it: the
\* value is both the result and the new content of the argument array.
rankCandidates(cands) == ArraySort(cands, ImportanceDescending(cands))

(* ------------------------- importance scoring -------------------------- *)
BaseScore == 500000
DecisionWeight == 200000
PreferenceWeight == 150000
CorrectionWeight == 250000
TodoWeight == 100000
UserMentionWeight == 150000
MentionStep == 50000
MentionCap == 200000
RecentAccessWeight == 50000

\* repeatedMention * 0.05 added without Math.min
ImportanceSum_UncappedMention(factors) ==
    BaseScore
    + (IF factors.isDecision THEN DecisionWeight ELSE 0)
    + (IF factors.isPreference THEN PreferenceWeight ELSE 0)
    + (IF factors.isCorrection THEN CorrectionWeight ELSE 0)
    + (IF factors.isTodo THEN TodoWeight ELSE 0)
    + (IF factors.mentionedByUser THEN UserMentionWeight ELSE 0)
    + factors.repeatedMention * MentionStep
    + (IF factors.recentlyAccessed THEN RecentAccessWeight ELSE 0)
    + (factors.uniqueness * 15) \div 100
    + factors.specificity \div 10

\* score -= 0.1 for a todo
ImportanceSum_TodoSubtracts(factors) ==
    BaseScore
    + (IF factors.isDecision THEN DecisionWeight ELSE 0)
    + (IF factors.isPreference THEN PreferenceWeight ELSE 0)
    + (IF factors.isCorrection THEN CorrectionWeight ELSE 0)
    - (IF factors.isTodo THEN TodoWeight ELSE 0)
    + (IF factors.mentionedByUser THEN UserMentionWeight ELSE 0)
    + Min(MentionCap, factors.repeatedMention * MentionStep)
    + (IF factors.recentlyAccessed THEN RecentAccessWeight ELSE 0)
    + (factors.uniqueness * 15) \div 100
    + factors.specificity \div 10

\* the score started at 0 instead of the base
ImportanceSum_NoBase(factors) ==
    (IF factors.isDecision THEN DecisionWeight ELSE 0)
    + (IF factors.isPreference THEN PreferenceWeight ELSE 0)
    + (IF factors.isCorrection THEN CorrectionWeight ELSE 0)
    + (IF factors.isTodo THEN TodoWeight ELSE 0)
    + (IF factors.mentionedByUser THEN UserMentionWeight ELSE 0)
    + Min(MentionCap, factors.repeatedMention * MentionStep)
    + (IF factors.recentlyAccessed THEN RecentAccessWeight ELSE 0)
    + (factors.uniqueness * 15) \div 100
    + factors.specificity \div 10

\* the sum of calculateImportance before the clamp
ImportanceSum(factors) ==
    BaseScore
    + (IF factors.isDecision THEN DecisionWeight ELSE 0)
    + (IF factors.isPreference THEN PreferenceWeight ELSE 0)
    + (IF factors.isCorrection THEN CorrectionWeight ELSE 0)
    + (IF factors.isTodo THEN TodoWeight ELSE 0)
    + (IF factors.mentionedByUser THEN UserMentionWeight ELSE 0)
    + Min(MentionCap, factors.repeatedMention * MentionStep)
    + (IF factors.recentlyAccessed THEN RecentAccessWeight ELSE 0)
    + (factors.uniqueness * 15) \div 100
    + factors.specificity \div 10

\* the score returned without the clamp
calculateImportance_NoClamp(factors) == Fin(ImportanceSum(factors))

calculateImportance(factors) == Clamp01(Fin(ImportanceSum(factors)))

\* the 'high' test written with >
classifyImportance_Exclusive(score) ==
    IF score >= 850000 THEN "critical"
    ELSE IF score > 650000 THEN "high"
    ELSE IF score >= 400000 THEN "medium"
    ELSE "low"

classifyImportance(score) ==
    IF score >= 850000 THEN "critical"
    ELSE IF score >= 650000 THEN "high"
    ELSE IF score >= 400000 THEN "medium"
    ELSE "low"

Undefined == [k |-> "undefined", v |-> 0]

TYPE_IMPORTANCE ==
    [correction |-> 900000, decision |-> 800000, preference |-> 700000,
     fact |-> 600000, todo |-> 600000, observation |-> 400000,
     transient |-> 200000]

\* TYPE_IMPORTANCE[type]: a property read of a plain object
TypeImportance(type) ==
    IF type \in DOMAIN TYPE_IMPORTANCE THEN Fin(TYPE_IMPORTANCE[type]) ELSE Undefined

AccessBonusStep == 20000
AccessBonusCap == 200000
RecencyWindowDays == 7
RecencyBonus == 100000

\* the recency bonus granted up to and including 7 days
ageAdjustedImportance_RecencyInclusive(baseImportance, ageTicks, accessCount, lastAccessTicks) ==
    LET decayRate == Unit - baseImportance
        lnAge == MathLog(ageTicks + TicksPerDay)
        accessBonus == Min(AccessBonusCap, accessCount * AccessBonusStep)
        recencyBonus == IF lastAccessTicks <= RecencyWindowDays * TicksPerDay
                        THEN RecencyBonus ELSE 0
        adjusted ==
            IF lnAge.k = "nan" THEN NaN
            ELSE IF lnAge.k = "ninf"
            THEN (IF decayRate = 0 THEN NaN
                  ELSE IF decayRate > 0 THEN [k |-> "pinf", v |-> 0] ELSE NegInf)
            ELSE LET agePenalty == ((lnAge.v \div 20) * (decayRate \div 1000)) \div 1000
                 IN  Fin(baseImportance - agePenalty + accessBonus + recencyBonus)
    IN  IF adjusted.k = "pinf" THEN Fin(Unit) ELSE Clamp01(adjusted)

\* the adjusted value returned without the clamp
ageAdjustedImportance_NoClamp(baseImportance, ageTicks, accessCount, lastAccessTicks) ==
    LET decayRate == Unit - baseImportance
        lnAge == MathLog(ageTicks + TicksPerDay)
        accessBonus == Min(AccessBonusCap, accessCount * AccessBonusStep)
        recencyBonus == IF lastAccessTicks < RecencyWindowDays * TicksPerDay
                        THEN RecencyBonus ELSE 0
        adjusted ==
            IF lnAge.k = "nan" THEN NaN
            ELSE IF lnAge.k = "ninf"
            THEN (IF decayRate = 0 THEN NaN
                  ELSE IF decayRate > 0 THEN [k |-> "pinf", v |-> 0] ELSE NegInf)
            ELSE LET agePenalty == ((lnAge.v \div 20) * (decayRate \div 1000)) \div 1000
                 IN  Fin(baseImportance - agePenalty + accessBonus + recencyBonus)
    IN  adjusted

\* the age penalty added instead of subtracted
ageAdjustedImportance_AddsPenalty(baseImportance, ageTicks, accessCount, lastAccessTicks) ==
    LET decayRate == Unit - baseImportance
        lnAge == MathLog(ageTicks + TicksPerDay)
        accessBonus == Min(AccessBonusCap, accessCount * AccessBonusStep)
        recencyBonus == IF lastAccessTicks < RecencyWindowDays * TicksPerDay
                        THEN RecencyBonus ELSE 0
        adjusted ==
            IF lnAge.k = "nan" THEN NaN
            ELSE IF lnAge.k = "ninf"
            THEN (IF decayRate = 0 THEN NaN
                  ELSE IF decayRate > 0 THEN [k |-> "pinf", v |-> 0] ELSE NegInf)
            ELSE LET agePenalty == ((lnAge.v \div 20) * (decayRate \div 1000)) \div 1000
                 IN  Fin(baseImportance + agePenalty + accessBonus + recencyBonus)
    IN  IF adjusted.k = "pinf" THEN Fin(Unit) ELSE Clamp01(adjusted)

\* ageDays and lastAccessDays are given in ticks
ageAdjustedImportance(baseImportance, ageTicks, accessCount, lastAccessTicks) ==
    LET decayRate == Unit - baseImportance
        lnAge == MathLog(ageTicks + TicksPerDay)
        accessBonus == Min(AccessBonusCap, accessCount * AccessBonusStep)
        recencyBonus == IF lastAccessTicks < RecencyWindowDays * TicksPerDay
                        THEN RecencyBonus ELSE 0
        adjusted ==
            IF lnAge.k = "nan" THEN NaN
            ELSE IF lnAge.k = "ninf"
            THEN (IF decayRate = 0 THEN NaN
                  ELSE IF decayRate > 0 THEN [k |-> "pinf", v |-> 0] ELSE NegInf)
            ELSE LET agePenalty == ((lnAge.v \div 20) * (decayRate \div 1000)) \div 1000
                 IN  Fin(baseImportance - agePenalty + accessBonus + recencyBonus)
    IN  IF adjusted.k = "pinf" THEN Fin(Unit) ELSE Clamp01(adjusted)

(* ------------------------------- init.ts ------------------------------- *)
\* A workspace on disk: the directories that exist, the content of each
\* file init can write, and the content of each daily memory file.  A
\* content is who wrote it last and the date it carries, if any.
NoDay == -1
Absent == [by |-> "none", day |-> NoDay]
Written(day) == [by |-> "init", day |-> day]
Edited == [by |-> "user", day |-> NoDay]

InitDirs == {".", "memory", "agents", ".learnings", "tasks", "memory-vault"}
Templates == {"SOUL.md", "AGENTS.md", "USER.md", "HEARTBEAT.md", "IDENTITY.md"}
AgentProfiles ==
    {"agents/researcher.md", "agents/coder.md", "agents/scanner.md", "agents/analyst.md"}
LearningsFiles ==
    {".learnings/ERRORS.md", ".learnings/LEARNINGS.md", ".learnings/FEATURE_REQUESTS.md"}
WorkspaceFiles ==
    Templates \cup AgentProfiles \cup LearningsFiles \cup {"tasks/TEMPLATE.md", "MEMORY.md"}

\* the days the clock can show; memory/<day>.md is the daily memory file
Today(now) == now \div TicksPerDay
Days == 0..Today(MaxClock)

NoWorkspace ==
    [dirs |-> {}, files |-> [f \in WorkspaceFiles |-> Absent],
     daily |-> [d \in Days |-> Absent]]

\* what init writes to file f on day `today`: the templates other than
\* SOUL.md may carry the date placeholder, the daily file and MEMORY.md
\* carry the date, everything else is constant text
InitContent(f, today) ==
    IF f \in (Templates \ {"SOUL.md"}) \cup {"MEMORY.md"} THEN Written(today)
    ELSE Written(NoDay)

\* init with the check for an existing SOUL.md left out
init_NoGuard(ws, force, today) ==
    [dirs |-> ws.dirs \cup InitDirs,
     files |-> [f \in WorkspaceFiles |-> InitContent(f, today)],
     daily |-> [ws.daily EXCEPT ![today] = Written(today)]]

\* init(workspace, {force}) run on day `today`; the templates and agent
\* profiles it copies ship with the package, so every pathExists(src) holds
init(ws, force, today) ==
    IF ~force /\ ws.files["SOUL.md"] # Absent THEN ws
    ELSE [dirs |-> ws.dirs \cup InitDirs,
          files |-> [f \in WorkspaceFiles |-> InitContent(f, today)],
          daily |-> [ws.daily EXCEPT ![today] = Written(today)]]

(* ------------------------------- inputs -------------------------------- *)
SeqsUpTo(S, n) == UNION {[1..k -> S] : k \in 0..n}

Ids == <<"m1", "m2", "m3", "m4", "m5">>

\* importance, lastAccessedAt, accessCount of the stored records; createdAt
\* is tick 0.  The last shape has an importance outside [0,1]; the shape
\* with lastAccessedAt = 4 is accessed after the earliest clock readings.
MemoryShapes ==
    { <<200000, 0, 0>>, <<200000, 4, 0>>, <<950000, 0, 4>>, <<1500000, 0, 0>> }

MemoryRecord(i, shape) ==
    [id |-> Ids[i], text |-> "text", type |-> "fact", importance |-> shape[1],
     createdAt |-> 0, lastAccessedAt |-> shape[2], accessCount |-> shape[3]]

MemoryInputs ==
    {[i \in 1..Len(sh) |-> MemoryRecord(i, sh[i])] : sh \in SeqsUpTo(MemoryShapes, MaxRecords)}

\* thresholds passed to getDecayedMemories; 700000 is the default, -200000
\* is outside [0,1]
Thresholds == {-200000, 0, 500000, 700000}

\* explicit `now` arguments passed to calculateDecay
Nows == {1, 2, 4}

\* similarity pairs [id1, id2, similarity]; 1200000 is outside [0,1]; the
\* index that supplies the pairs is not bound to the records: a pair may
\* name one id twice or an id that no record carries ("m9")
PairShapes ==
    ({<<"m1", "m2">>, <<"m2", "m3">>}
        \X {500000, 700000, 750000, 900000, 950000, 1200000})
    \cup ({<<"m1", "m1">>, <<"m2", "m9">>} \X {750000, 950000})

PairInputs ==
    {[i \in 1..Len(p) |-> <<p[i][1][1], p[i][1][2], p[i][2]>>] : p \in SeqsUpTo(PairShapes, MaxPairs)}

CandidateShapes == {"a", "b"} \X {300000, 500000, 900000}

MemoryCandidate(shape) ==
    [text |-> shape[1], type |-> "fact", importance |-> shape[2],
     source |-> "chat", timestamp |-> 0]

CandidateInputs ==
    {[i \in 1..Len(c) |-> MemoryCandidate(c[i])] : c \in SeqsUpTo(CandidateShapes, MaxCandidates)}

\* the values new Date() can return over n successive reads starting at
\* tick `start`: the clock never goes back and may tick between two reads
ClockReads(start, n) ==
    {r \in [1..n -> start..Min(MaxClock, start + n)] :
        /\ n > 0 => r[1] = start
        /\ \A i \in 1..(n - 1) : r[i + 1] - r[i] \in {0, 1}}

\* the factor records given to calculateImportance
FactorInputs ==
    [isDecision : BOOLEAN, isPreference : BOOLEAN, isCorrection : BOOLEAN,
     isTodo : BOOLEAN, mentionedByUser : BOOLEAN,
     repeatedMention : 0..MaxMention, recentlyAccessed : BOOLEAN,
     uniqueness : {0, 500000, 1000000}, specificity : {0, 1000000}]

\* scores given to classifyImportance: the three thresholds and their
\* neighbours
Scores == {0, 399999, 400000, 400001, 649999, 650000, 650001,
           849999, 850000, 850001, 1000000}

\* the keys of TYPE_IMPORTANCE and the candidate type 'lesson'
MemoryTypes ==
    {"correction", "decision", "preference", "fact", "todo", "observation",
     "transient", "lesson"}

\* arguments of ageAdjustedImportance; 14 ticks are exactly 7 days
BaseImportances == {0, 200000, 900000, 1000000}
AgeTicks == {0, 1, 20, 400}
LastAccessTicks == {0, 13, 14, 15}

\* a stored record followed over its life: importance, createdAt,
\* lastAccessedAt, accessCount, with createdAt <= lastAccessedAt <= 0, the
\* first clock reading
LifeShapes ==
    { <<200000, 0, 0, 0>>, <<950000, 0, 0, 9>>, <<0, -30, -30, 0>>,
      <<500000, -30, -14, 3>>, <<1000000, -30, 0, 10>>, <<600000, -30, -30, 0>> }

\* how far past the last clock reading later times are examined, in ticks
FutureTicks == 20

LifeRecord(shape) ==
    [id |-> Ids[1], text |-> "text", type |-> "fact", importance |-> shape[1],
     createdAt |-> shape[2], lastAccessedAt |-> shape[3], accessCount |-> shape[4]]

\* input arrays of at most one element, the empty one included
AtMostOne(S) == {s \in S : Len(s) <= 1}

\* the records of the end-to-end scenarios: importance, createdAt,
\* lastAccessedAt, accessCount; one created 200 days before the first
\* clock reading and never accessed since, one created at that reading
\* and accessed 50 times
ScenarioShapes == { <<200000, -400, -400, 0>>, <<900000, 0, 0, 50>> }

ScenarioRecord(i, shape) ==
    [id |-> Ids[i], text |-> "text", type |-> "fact", importance |-> shape[1],
     createdAt |-> shape[2], lastAccessedAt |-> shape[3], accessCount |-> shape[4]]

ScenarioInputs ==
    {[i \in 1..Len(sh) |-> ScenarioRecord(i, sh[i])] : sh \in SeqsUpTo(ScenarioShapes, MaxRecords)}

\* the existingMemories argument of deduplicateCandidates: texts
ExistingMemories == SeqsUpTo({"a", "b"}, 2)

\* similarityThreshold: the default 0.85, and 1
SimilarityThresholds == {850000, 1000000}

(* ------------------------------- actions ------------------------------- *)
NoCall == [op |-> "none"]

Tick ==
    /\ clock < MaxClock
    /\ clock' = clock + 1
    /\ UNCHANGED <<memories, candidates, similarityPairs, ret, workspace>>

\* calculateDecay(memory, now) with an explicit now
CallCalculateDecay(i, now) ==
    /\ i \in 1..Len(memories)
    /\ ret' = [op |-> "calculateDecay", memory |-> memories[i], now |-> now,
               val |-> calculateDecay(memories[i], now)]
    /\ UNCHANGED <<clock, memories, candidates, similarityPairs, workspace>>

\* getDecayedMemories(memories, threshold): the time is new Date(), read
\* once per record by the default argument of calculateDecay
CallGetDecayedMemories(threshold, reads) ==
    /\ reads \in ClockReads(clock, Len(memories))
    /\ ret' = [op |-> "getDecayedMemories", memories |-> memories,
               threshold |-> threshold, reads |-> reads,
               val |-> getDecayedMemories(memories, threshold, reads)]
    /\ clock' = IF reads = <<>> THEN clock ELSE reads[Len(reads)]
    /\ UNCHANGED <<memories, candidates, similarityPairs, workspace>>

\* strengthenMemory(memory): lastAccessedAt is new Date()
CallStrengthenMemory(i) ==
    /\ i \in 1..Len(memories)
    /\ ret' = [op |-> "strengthenMemory", memory |-> memories[i], now |-> clock,
               val |-> strengthenMemory(memories[i], clock)]
    /\ UNCHANGED <<clock, memories, candidates, similarityPairs, workspace>>

CallConsolidateMemories ==
    /\ ret' = [op |-> "consolidateMemories", memories |-> memories,
               pairs |-> similarityPairs,
               val |-> consolidateMemories(memories, similarityPairs)]
    /\ UNCHANGED <<clock, memories, candidates, similarityPairs, workspace>>

\* rankCandidates(candidates): the argument array is sorted in place and
\* returned
CallRankCandidates ==
    /\ candidates' = rankCandidates(candidates)
    /\ ret' = [op |-> "rankCandidates", candidates |-> candidates,
               val |-> candidates']
    /\ UNCHANGED <<clock, memories, similarityPairs, workspace>>

CallCalculateImportance(factors) ==
    /\ ret' = [op |-> "calculateImportance", factors |-> factors,
               val |-> calculateImportance(factors)]
    /\ UNCHANGED <<clock, memories, candidates, similarityPairs, workspace>>

CallClassifyImportance(score) ==
    /\ ret' = [op |-> "classifyImportance", score |-> score,
               val |-> classifyImportance(score)]
    /\ UNCHANGED <<clock, memories, candidates, similarityPairs, workspace>>

\* a caller reads the default importance of a memory type from the table
ReadTypeImportance(type) ==
    /\ ret' = [op |-> "TYPE_IMPORTANCE", type |-> type, val |-> TypeImportance(type)]
    /\ UNCHANGED <<clock, memories, candidates, similarityPairs, workspace>>

CallAgeAdjustedImportance(baseImportance, ageTicks, accessCount, lastAccessTicks) ==
    /\ ret' = [op |-> "ageAdjustedImportance", baseImportance |-> baseImportance,
               ageTicks |-> ageTicks, accessCount |-> accessCount,
               lastAccessTicks |-> lastAccessTicks,
               val |-> ageAdjustedImportance(baseImportance, ageTicks,
                                             accessCount, lastAccessTicks)]
    /\ UNCHANGED <<clock, memories, candidates, similarityPairs, workspace>>

CallDeduplicateCandidates(existingMemories, similarityThreshold) ==
    /\ ret' = [op |-> "deduplicateCandidates", candidates |-> candidates,
               existingMemories |-> existingMemories,
               similarityThreshold |-> similarityThreshold,
               val |-> deduplicateCandidates(candidates, existingMemories,
                                             similarityThreshold)]
    /\ UNCHANGED <<clock, memories, candidates, similarityPairs, workspace>>

\* persona init, run from the command line (no force) or through the
\* exported function (force as given); n counts the runs
CallInit(force) ==
    /\ (IF ret.op = "init" THEN ret.n ELSE 0) < MaxInits
    /\ workspace' = init(workspace, force, Today(clock))
    /\ ret' = [op |-> "init", force |-> force,
               n |-> (IF ret.op = "init" THEN ret.n ELSE 0) + 1,
               today |-> Today(clock)]
    /\ UNCHANGED <<clock, memories, candidates, similarityPairs>>

\* the user or the agent edits a file of the workspace that exists
EditFile(f) ==
    /\ workspace.files[f] # Absent
    /\ workspace' = [workspace EXCEPT !.files[f] = Edited]
    /\ UNCHANGED <<clock, memories, candidates, similarityPairs, ret>>

\* the agent logs to the daily memory file of the current day, creating it
\* if the day has none yet
LogDaily ==
    /\ "memory" \in workspace.dirs
    /\ workspace' = [workspace EXCEPT !.daily[Today(clock)] = Edited]
    /\ UNCHANGED <<clock, memories, candidates, similarityPairs, ret>>

\* a retrieval: the store replaces record i by strengthenMemory(record i)
StoreStrengthened(i) ==
    /\ i \in 1..Len(memories)
    /\ memories[i].accessCount < MaxAccess
    /\ ret' = [op |-> "strengthenMemory", memory |-> memories[i], now |-> clock,
               val |-> strengthenMemory(memories[i], clock)]
    /\ memories' = [memories EXCEPT ![i] = ret'.val]
    /\ UNCHANGED <<clock, candidates, similarityPairs, workspace>>

\* the periodic update, at most one per tick: the store replaces the
\* importance of record i by ageAdjustedImportance of its importance, age
\* and access history at the current time (a number: the age is never
\* negative here), and the next period begins
StoreAgeAdjusted(i) ==
    /\ i \in 1..Len(memories)
    /\ clock < MaxClock
    /\ clock' = clock + 1
    /\ LET m == memories[i]
       IN  /\ ret' = [op |-> "ageAdjustedImportance", baseImportance |-> m.importance,
                      ageTicks |-> clock - m.createdAt, accessCount |-> m.accessCount,
                      lastAccessTicks |-> clock - m.lastAccessedAt,
                      val |-> ageAdjustedImportance(m.importance, clock - m.createdAt,
                                  m.accessCount, clock - m.lastAccessedAt)]
           /\ memories' = [memories EXCEPT ![i].importance = ret'.val.v]
    /\ UNCHANGED <<candidates, similarityPairs, workspace>>

(* ---------------------------- specifications --------------------------- *)
InitForgetting ==
    /\ clock = 0
    /\ memories \in MemoryInputs
    /\ candidates = <<>>
    /\ similarityPairs = <<>>
    /\ ret = NoCall
    /\ workspace = NoWorkspace

NextForgetting ==
    \/ Tick
    \/ \E i \in 1..MaxRecords, now \in Nows : CallCalculateDecay(i, now)
    \/ \E threshold \in Thresholds :
          \E reads \in ClockReads(clock, Len(memories)) :
              CallGetDecayedMemories(threshold, reads)
    \/ \E i \in 1..MaxRecords : CallStrengthenMemory(i)

SpecForgetting == InitForgetting /\ [][NextForgetting]_vars

InitConsolidate ==
    /\ clock = 0
    /\ memories = [i \in 1..3 |-> MemoryRecord(i, <<950000, 0, 4>>)]
    /\ candidates = <<>>
    /\ similarityPairs \in PairInputs
    /\ ret = NoCall
    /\ workspace = NoWorkspace

NextConsolidate == CallConsolidateMemories

SpecConsolidate == InitConsolidate /\ [][NextConsolidate]_vars

InitRank ==
    /\ clock = 0
    /\ memories = <<>>
    /\ candidates \in CandidateInputs
    /\ similarityPairs = <<>>
    /\ ret = NoCall
    /\ workspace = NoWorkspace

NextRank == CallRankCandidates

SpecRank == InitRank /\ [][NextRank]_vars

\* every input array shared by several callers; memories and pairs are fixed
InitEngine ==
    /\ clock = 0
    /\ memories = <<MemoryRecord(1, <<200000, 4, 0>>), MemoryRecord(2, <<950000, 0, 4>>)>>
    /\ candidates \in CandidateInputs
    /\ similarityPairs = <<<<"m1", "m2", 750000>>, <<"m2", "m3", 950000>>>>
    /\ ret = NoCall
    /\ workspace = NoWorkspace

NextEngine ==
    \/ NextForgetting
    \/ NextConsolidate
    \/ NextRank

SpecEngine == InitEngine /\ [][NextEngine]_vars

InitImportance ==
    /\ clock = 0
    /\ memories = <<>>
    /\ candidates = <<>>
    /\ similarityPairs = <<>>
    /\ ret = NoCall
    /\ workspace = NoWorkspace

NextImportance ==
    \/ \E factors \in FactorInputs : CallCalculateImportance(factors)
    \/ \E score \in Scores : CallClassifyImportance(score)
    \/ \E type \in MemoryTypes : ReadTypeImportance(type)
    \/ \E baseImportance \in BaseImportances, ageTicks \in AgeTicks,
          accessCount \in 0..MaxAccess, lastAccessTicks \in LastAccessTicks :
          CallAgeAdjustedImportance(baseImportance, ageTicks, accessCount, lastAccessTicks)

SpecImportance == InitImportance /\ [][NextImportance]_vars

\* one stored record, retrieved, re-scored and examined for forgetting as
\* time passes
InitLife ==
    /\ clock = 0
    /\ memories \in {<<LifeRecord(shape)>> : shape \in LifeShapes}
    /\ candidates = <<>>
    /\ similarityPairs = <<>>
    /\ ret = NoCall
    /\ workspace = NoWorkspace

NextLife ==
    \/ Tick
    \/ StoreStrengthened(1)
    \/ StoreAgeAdjusted(1)
    \/ \E threshold \in Thresholds :
          \E reads \in ClockReads(clock, Len(memories)) :
              CallGetDecayedMemories(threshold, reads)

SpecLife == InitLife /\ [][NextLife]_vars

\* the three batch operations on arrays of zero or one element
InitBatch ==
    /\ clock = 0
    /\ memories \in AtMostOne(MemoryInputs)
    /\ candidates \in AtMostOne(CandidateInputs)
    /\ similarityPairs \in AtMostOne(PairInputs)
    /\ ret = NoCall
    /\ workspace = NoWorkspace

NextBatch ==
    \/ \E threshold \in Thresholds :
          \E reads \in ClockReads(clock, Len(memories)) :
              CallGetDecayedMemories(threshold, reads)
    \/ CallConsolidateMemories
    \/ CallRankCandidates

SpecBatch == InitBatch /\ [][NextBatch]_vars

\* the end-to-end scenarios: old and fresh records examined for forgetting
InitScenario ==
    /\ clock = 0
    /\ memories \in ScenarioInputs
    /\ candidates = <<>>
    /\ similarityPairs = <<>>
    /\ ret = NoCall
    /\ workspace = NoWorkspace

NextScenario ==
    \/ Tick
    \/ \E threshold \in Thresholds :
          \E reads \in ClockReads(clock, Len(memories)) :
              CallGetDecayedMemories(threshold, reads)

SpecScenario == InitScenario /\ [][NextScenario]_vars

InitDedup ==
    /\ clock = 0
    /\ memories = <<>>
    /\ candidates \in CandidateInputs
    /\ similarityPairs = <<>>
    /\ ret = NoCall
    /\ workspace = NoWorkspace

NextDedup ==
    \E existingMemories \in ExistingMemories,
       similarityThreshold \in SimilarityThresholds :
        CallDeduplicateCandidates(existingMemories, similarityThreshold)

SpecDedup == InitDedup /\ [][NextDedup]_vars

\* the files the user and the agent write to after init
EditedFiles == {"SOUL.md", "MEMORY.md"} \cup LearningsFiles

\* a workspace directory that init is run on, more than once, while its
\* files are edited and logged to over several days
InitWorkspace ==
    /\ clock = 0
    /\ memories = <<>>
    /\ candidates = <<>>
    /\ similarityPairs = <<>>
    /\ ret = NoCall
    /\ workspace \in {NoWorkspace, [NoWorkspace EXCEPT !.dirs = {"."}]}

NextWorkspace ==
    \/ Tick
    \/ \E force \in BOOLEAN : CallInit(force)
    \/ \E f \in EditedFiles : EditFile(f)
    \/ LogDaily

SpecWorkspace == InitWorkspace /\ [][NextWorkspace]_vars

(* ------------------------------ properties ----------------------------- *)
InUnit(x) == 0 <= x /\ x <= Unit

ValidRecord(m) ==
    /\ InUnit(m.importance)
    /\ m.accessCount >= 0
    /\ m.lastAccessedAt >= m.createdAt

\* C1: getDecayedMemories returns exactly the input records whose computed
\* decay score is strictly greater than the threshold, each once and each
\* carrying that score, ordered by decayScore descending, records of equal
\* score in their input order.
C1_DecayedSelection ==
    ret.op = "getDecayedMemories" =>
        LET in == ret.memories
            out == ret.val
            score(i) == calculateDecay(in[i], ret.reads[i])
            chosen == {i \in 1..Len(in) :
                          score(i).k = "fin" /\ score(i).v > ret.threshold}
            src(j) == CHOOSE i \in 1..Len(in) : in[i].id = out[j].id
        IN  /\ Len(out) = Cardinality(chosen)
            /\ \A j \in 1..Len(out) :
                   \E i \in chosen : out[j] = WithDecayScore(in[i], score(i))
            /\ \A j, k \in 1..Len(out) :
                   j < k =>
                     /\ out[j].id # out[k].id
                     /\ out[j].decayScore.v >= out[k].decayScore.v
                     /\ out[j].decayScore.v = out[k].decayScore.v => src(j) < src(k)

\* three records at threshold 0: the one whose score is exactly 0 is left
\* out and the other two come back in the opposite of their input order
C1_Witness ==
    /\ ret.op = "getDecayedMemories"
    /\ ret.threshold = 0
    /\ Len(ret.memories) = 3
    /\ Len(ret.val) = 2
    /\ \E i \in 1..3 : calculateDecay(ret.memories[i], ret.reads[i]) = Fin(0)
    /\ ret.val[1].decayScore.v > ret.val[2].decayScore.v
    /\ \E i, j \in 1..3 :
           i < j /\ ret.memories[i].id = ret.val[2].id /\ ret.memories[j].id = ret.val[1].id

\* C2: for a valid record and now >= createdAt (now may be earlier than
\* lastAccessedAt), calculateDecay returns a number in [0,1].
C2_DecayInUnitInterval ==
    (/\ ret.op = "calculateDecay"
     /\ ValidRecord(ret.memory)
     /\ ret.now >= ret.memory.createdAt)
        => ret.val.k = "fin" /\ InUnit(ret.val.v)

\* C3: two runs of getDecayedMemories on the same records and the same
\* threshold return the same sequence, however much time passes in between.
C3_DependsOnlyOnArguments ==
    [][(/\ ret.op = "getDecayedMemories"
        /\ ret'.op = "getDecayedMemories"
        /\ ret'.memories = ret.memories
        /\ ret'.threshold = ret.threshold)
           => ret'.val = ret.val]_vars

\* C4: strengthenMemory(r) has importance min(1, r.importance + 0.1),
\* accessCount r.accessCount + 1, lastAccessedAt the invocation time, and
\* the id, text, type and createdAt of r.
C4_Strengthen ==
    ret.op = "strengthenMemory" =>
        LET r == ret.memory
            s == ret.val
        IN  /\ s.importance = (IF r.importance + 100000 >= Unit
                               THEN Unit ELSE r.importance + 100000)
            /\ s.accessCount = r.accessCount + 1
            /\ s.lastAccessedAt = ret.now
            /\ s.id = r.id /\ s.text = r.text /\ s.type = r.type
            /\ s.createdAt = r.createdAt
            /\ DOMAIN s = DOMAIN r

\* a strengthening that clamps the importance and moves lastAccessedAt
C4_Witness ==
    /\ ret.op = "strengthenMemory"
    /\ ret.memory.importance = 950000
    /\ ret.val.importance = Unit
    /\ ret.val.lastAccessedAt # ret.memory.lastAccessedAt

\* the members of a set of positions, in increasing order
Ascending(idx) ==
    [j \in 1..Cardinality(idx) |->
        CHOOSE n \in idx : Cardinality({m \in idx : m < n}) = j - 1]

\* C5: toMerge is exactly the subsequence of input pairs with similarity
\* strictly greater than 0.9, as (id1, id2) in input order; overlapping pairs
\* are both kept.
C5_ToMerge ==
    ret.op = "consolidateMemories" =>
        LET pos == Ascending({n \in 1..Len(ret.pairs) : ret.pairs[n][3] > 900000})
            toMerge == ret.val.toMerge
        IN  /\ Len(toMerge) = Len(pos)
            /\ \A j \in 1..Len(pos) :
                   toMerge[j] = <<ret.pairs[pos[j]][1], ret.pairs[pos[j]][2]>>

\* overlapping pairs (m1,m2) and (m2,m3) both merged, a pair of exactly 0.9
\* left out
C5_Witness ==
    /\ ret.op = "consolidateMemories"
    /\ ret.val.toMerge = <<<<"m1", "m2">>, <<"m2", "m3">>>>
    /\ \E n \in 1..Len(ret.pairs) : ret.pairs[n][3] = 900000

\* C6: toStrengthen contains an id iff the id occurs in some input pair
\* with 0.7 < similarity <= 0.9, and contains it once.
C6_ToStrengthen ==
    ret.op = "consolidateMemories" =>
        LET related == {n \in 1..Len(ret.pairs) :
                           ret.pairs[n][3] > 700000 /\ ret.pairs[n][3] <= 900000}
            ids == {ret.pairs[n][1] : n \in related} \cup {ret.pairs[n][2] : n \in related}
            out == ret.val.toStrengthen
        IN  /\ {out[j] : j \in 1..Len(out)} = ids
            /\ Len(out) = Cardinality(ids)

\* m2 occurs in two related pairs, one of them at exactly 0.9, next to a
\* pair of exactly 0.7
C6_Witness ==
    /\ ret.op = "consolidateMemories"
    /\ ret.pairs = <<<<"m1", "m2", 900000>>, <<"m2", "m3", 750000>>, <<"m1", "m2", 700000>>>>
    /\ Len(ret.val.toStrengthen) = 3

\* C7: rankCandidates returns a permutation of its input ordered by
\* importance descending, candidates of equal importance in input order.
C7_Ranked ==
    ret.op = "rankCandidates" =>
        LET in == ret.candidates
            out == ret.val
        IN  /\ Len(out) = Len(in)
            /\ \A j, k \in 1..Len(out) : j < k => out[j].importance >= out[k].importance
            /\ \A x \in {in[n].importance : n \in 1..Len(in)} \cup {out[n].importance : n \in 1..Len(out)} :
                   SelectSeq(out, LAMBDA c : c.importance = x)
                       = SelectSeq(in, LAMBDA c : c.importance = x)

\* an unsorted input with two different candidates of equal importance
C7_Witness ==
    /\ ret.op = "rankCandidates"
    /\ Len(ret.candidates) = 3
    /\ ret.candidates[1].importance < ret.candidates[2].importance
    /\ ret.candidates[1].importance = ret.candidates[3].importance
    /\ ret.candidates[1].text # ret.candidates[3].text

\* C8: after rankCandidates the sequence the caller passed in has the same
\* elements in the same order as before the call.
C8_InputNotMutated ==
    ret.op = "rankCandidates" => candidates = ret.candidates

\* C9: in every interleaving of callers sharing records, pairs and
\* candidates, no invocation changes what the other holders of the shared
\* inputs observe.
C9_SharedInputsUnchanged ==
    [][/\ memories' = memories
       /\ candidates' = candidates
       /\ similarityPairs' = similarityPairs]_vars

InDomain(call) ==
    CASE call.op = "calculateDecay" ->
            ValidRecord(call.memory) /\ call.now >= call.memory.createdAt
      [] call.op = "getDecayedMemories" ->
            /\ \A i \in 1..Len(call.memories) :
                   ValidRecord(call.memories[i]) /\ call.reads[i] >= call.memories[i].createdAt
            /\ InUnit(call.threshold)
      [] call.op = "strengthenMemory" -> ValidRecord(call.memory)
      [] call.op = "consolidateMemories" ->
            \A n \in 1..Len(call.pairs) : InUnit(call.pairs[n][3])
      [] call.op = "rankCandidates" ->
            \A n \in 1..Len(call.candidates) : InUnit(call.candidates[n].importance)
      [] OTHER -> TRUE

\* C10: a call with an input outside its declared domain fails and produces
\* no output: every call that has returned a value had inputs in the domain.
C10_InvalidInputFails ==
    ret.op # "none" => InDomain(ret)

\* C11: the default importance of a listed memory type is its table value,
\* and of any other type (such as 'lesson') the observation default 0.4.
C11_TypeDefault ==
    ret.op = "TYPE_IMPORTANCE" =>
        ret.val = Fin(CASE ret.type = "correction" -> 900000
                        [] ret.type = "decision" -> 800000
                        [] ret.type = "preference" -> 700000
                        [] ret.type \in {"fact", "todo"} -> 600000
                        [] ret.type = "transient" -> 200000
                        [] OTHER -> 400000)

ValidFactors(f) ==
    /\ f.repeatedMention >= 0
    /\ InUnit(f.uniqueness)
    /\ InUnit(f.specificity)

\* C12: for every valid factors record calculateImportance is in [0,1].
C12_ImportanceInUnitInterval ==
    (ret.op = "calculateImportance" /\ ValidFactors(ret.factors))
        => ret.val.k = "fin" /\ InUnit(ret.val.v)

\* every factor at its highest: the sum is far above 1
C12_Witness ==
    /\ ret.op = "calculateImportance"
    /\ ret.factors.isDecision /\ ret.factors.isPreference /\ ret.factors.isCorrection
    /\ ret.factors.isTodo /\ ret.factors.mentionedByUser /\ ret.factors.recentlyAccessed
    /\ ret.factors.repeatedMention >= 4
    /\ ret.factors.uniqueness = Unit /\ ret.factors.specificity = Unit
    /\ ret.val = Fin(Unit)

\* C13: calculateImportance is the clamp to [0,1] of 0.5 + 0.25 isCorrection
\* + 0.20 isDecision + 0.15 isPreference + 0.15 mentionedByUser + 0.10 isTodo
\* + 0.05 recentlyAccessed + min(0.20, 0.05 repeatedMention)
\* + 0.15 uniqueness + 0.10 specificity; every count of 4 or more mentions
\* contributes the same.
C13_ImportanceFormula ==
    (ret.op = "calculateImportance" /\ ValidFactors(ret.factors)) =>
        LET f == ret.factors
            B(b, w) == IF b THEN w ELSE 0
            mention == IF 5 * f.repeatedMention >= 20 THEN 200000
                       ELSE 50000 * f.repeatedMention
            sum == 500000 + B(f.isCorrection, 250000) + B(f.isDecision, 200000)
                   + B(f.isPreference, 150000) + B(f.mentionedByUser, 150000)
                   + B(f.isTodo, 100000) + B(f.recentlyAccessed, 50000)
                   + mention + (15 * f.uniqueness) \div 100 + f.specificity \div 10
        IN  /\ ret.val = Fin(IF sum > Unit THEN Unit ELSE IF sum < 0 THEN 0 ELSE sum)
            /\ f.repeatedMention >= 4 =>
                   ret.val = calculateImportance([f EXCEPT !.repeatedMention = 4])

\* more than 4 mentions and a score below 1, so the cap on the mention
\* term is what bounds the result
C13_Witness ==
    /\ ret.op = "calculateImportance"
    /\ ret.factors.repeatedMention > 4
    /\ ret.factors.isTodo /\ ret.factors.uniqueness = 500000
    /\ ret.val = Fin(875000)

\* the factor records that differ from f in one factor, which is higher
RaisedFactors(f) ==
    {g \in FactorInputs :
        \E k \in DOMAIN f :
            /\ \A h \in DOMAIN f \ {k} : g[h] = f[h]
            /\ IF k \in {"repeatedMention", "uniqueness", "specificity"}
               THEN g[k] > f[k]
               ELSE ~f[k] /\ g[k]}

\* C14: switching a boolean factor from false to true, or increasing
\* repeatedMention, uniqueness or specificity, with the other factors fixed,
\* never lowers calculateImportance.
C14_ImportanceMonotone ==
    ret.op = "calculateImportance" =>
        \A g \in RaisedFactors(ret.factors) :
            calculateImportance(g).v >= ret.val.v

\* a todo flag that can still be switched on and raises the score
C14_Witness ==
    /\ ret.op = "calculateImportance"
    /\ ~ret.factors.isTodo
    /\ calculateImportance([ret.factors EXCEPT !.isTodo = TRUE]).v > ret.val.v

\* a <= b for two JavaScript numbers (false when either is NaN)
JsLeq(a, b) == a.k = "fin" /\ b.k = "fin" /\ a.v <= b.v

\* C15: for a fixed now, calculateDecay does not decrease when the time
\* since the last access grows, and does not increase when importance grows,
\* all other fields fixed.
C15_DecayMonotone ==
    ret.op = "calculateDecay" =>
        /\ \A t \in {m[2] : m \in MemoryShapes} :
               t < ret.memory.lastAccessedAt =>
                   JsLeq(ret.val,
                         calculateDecay([ret.memory EXCEPT !.lastAccessedAt = t], ret.now))
        /\ \A x \in {m[1] : m \in MemoryShapes} :
               x > ret.memory.importance =>
                   JsLeq(calculateDecay([ret.memory EXCEPT !.importance = x], ret.now),
                         ret.val)

\* C16: for baseImportance in [0,1] and non-negative ageDays, accessCount
\* and lastAccessDays, ageAdjustedImportance is the clamp to [0,1] of
\* baseImportance - ln(ageDays + 1) (1 - baseImportance) 0.05
\* + min(0.2, 0.02 accessCount) + recencyBonus, where recencyBonus is 0.1
\* exactly when lastAccessDays < 7.
C16_AgeAdjusted ==
    (/\ ret.op = "ageAdjustedImportance"
     /\ InUnit(ret.baseImportance)
     /\ ret.ageTicks >= 0 /\ ret.accessCount >= 0 /\ ret.lastAccessTicks >= 0) =>
        LET agePenalty == ((LnTable[ret.ageTicks + 2] \div 20)
                              * ((1000000 - ret.baseImportance) \div 1000)) \div 1000
            accessBonus == IF ret.accessCount >= 10 THEN 200000
                           ELSE 20000 * ret.accessCount
            recencyBonus == IF ret.lastAccessTicks >= 14 THEN 0 ELSE 100000
            sum == ret.baseImportance - agePenalty + accessBonus + recencyBonus
        IN  /\ ret.val.k = "fin" /\ InUnit(ret.val.v)
            /\ ret.val.v = (IF sum > Unit THEN Unit ELSE IF sum < 0 THEN 0 ELSE sum)

\* last access exactly 7 days ago: no recency bonus, and an age penalty
\* that outweighs the capped access bonus in an unclamped result
C16_Witness ==
    /\ ret.op = "ageAdjustedImportance"
    /\ ret.lastAccessTicks = 14
    /\ ret.ageTicks = 400
    /\ ret.accessCount > 10
    /\ ret.baseImportance = 200000
    /\ ret.val.v > 0
    /\ ret.val.v < 200000

C19_AccessCountMonotone ==
    [][\A i \in 1..Len(memories) :
           /\ memories[i].accessCount >= 0
           /\ memories'[i].accessCount >= memories[i].accessCount
           /\ (ret'.op = "strengthenMemory" /\ ret' # ret /\ ret'.memory = memories[i])
                  => /\ memories'[i].accessCount = memories[i].accessCount + 1
                     /\ ret'.val.accessCount = memories[i].accessCount + 1]_vars

\* a record strengthened twice in a row
C19_Witness ==
    /\ ret.op = "strengthenMemory"
    /\ memories[1] = ret.val
    /\ ret.memory.accessCount = 1
    /\ memories[1].accessCount = 2

\* C20: classifyImportance returns critical for score >= 0.85, high for
\* 0.65 <= score < 0.85, medium for 0.40 <= score < 0.65 and low for
\* score < 0.40, for every score.
C20_Classification ==
    ret.op = "classifyImportance" =>
        /\ ret.val = "critical" <=> ~(ret.score < 850000)
        /\ ret.val = "high" <=> (~(ret.score < 650000) /\ ret.score < 850000)
        /\ ret.val = "medium" <=> (~(ret.score < 400000) /\ ret.score < 650000)
        /\ ret.val = "low" <=> ret.score < 400000

\* a score exactly on the lower bound of 'high'
C20_Witness ==
    /\ ret.op = "classifyImportance"
    /\ ret.score = 650000
    /\ ret.val = "high"


\* C21: every batch operation returns an empty result on zero-length input:
\* getDecayedMemories on no records and rankCandidates on no candidates
\* return the empty sequence, consolidateMemories on no pairs returns an
\* empty toMerge and an empty toStrengthen.
C21_EmptyInputEmptyResult ==
    /\ (ret.op = "getDecayedMemories" /\ ret.memories = <<>>) => ret.val = <<>>
    /\ (ret.op = "rankCandidates" /\ ret.candidates = <<>>) => ret.val = <<>>
    /\ (ret.op = "consolidateMemories" /\ ret.pairs = <<>>) =>
           ret.val = [toMerge |-> <<>>, toStrengthen |-> <<>>]

C21_Witness ==
    /\ memories = <<>> /\ candidates = <<>> /\ similarityPairs = <<>>
    /\ ret.op = "consolidateMemories"
    /\ ret.pairs = <<>>
    /\ ret.val.toMerge = <<>>
    /\ ret.val.toStrengthen = <<>>

\* C22: a record created 200 days before now with importance 0.2,
\* lastAccessedAt = createdAt and accessCount 0 has a decay score above 0.5
\* and is contained in the result of getDecayedMemories with threshold 0.5.
C22_OldRecordDecayed ==
    (ret.op = "getDecayedMemories" /\ ret.threshold = 500000) =>
        \A i \in 1..Len(ret.memories) :
            LET m == ret.memories[i]
            IN  (/\ ret.reads[i] - m.createdAt = 200 * TicksPerDay
                 /\ m.importance = 200000
                 /\ m.lastAccessedAt = m.createdAt
                 /\ m.accessCount = 0) =>
                    /\ JsGreater(calculateDecay(m, ret.reads[i]), 500000)
                    /\ \E j \in 1..Len(ret.val) :
                          /\ ret.val[j].id = m.id
                          /\ JsGreater(ret.val[j].decayScore, 500000)

C22_Witness ==
    /\ ret.op = "getDecayedMemories"
    /\ ret.threshold = 500000
    /\ Len(ret.memories) = 2
    /\ \E i \in 1..2 :
          /\ ret.reads[i] - ret.memories[i].createdAt = 200 * TicksPerDay
          /\ ret.memories[i].importance = 200000
          /\ ret.memories[i].accessCount = 0
          /\ ret.val = <<WithDecayScore(ret.memories[i],
                                        calculateDecay(ret.memories[i], ret.reads[i]))>>
          /\ ret.val[1].decayScore.v > 800000

\* C24: deduplicateCandidates filters the candidates against the existing
\* memories: no candidate whose text equals the text of an existing memory
\* is in the result, and every candidate of the result is in the input.
C24_DuplicatesFiltered ==
    ret.op = "deduplicateCandidates" =>
        /\ \A j \in 1..Len(ret.val) :
              ret.val[j].text \notin Range(ret.existingMemories)
        /\ Range(ret.val) \subseteq Range(ret.candidates)

\* C25: for every record with createdAt <= lastAccessedAt <= t and
\* importance in [0,1], the decay at t of strengthenMemory(r) invoked at t
\* is less than or equal to the decay of r at t.
C25_StrengthenLowersDecay ==
    (/\ ret.op = "strengthenMemory"
     /\ ValidRecord(ret.memory)
     /\ ret.memory.lastAccessedAt <= ret.now) =>
        JsLeq(calculateDecay(ret.val, ret.now), calculateDecay(ret.memory, ret.now))

\* a record last accessed days ago is strengthened and its decay drops
C25_Witness ==
    /\ ret.op = "strengthenMemory"
    /\ ret.memory.lastAccessedAt < ret.now
    /\ ret.memory.importance < Unit
    /\ memories[1] = ret.val
    /\ calculateDecay(ret.val, ret.now).v < calculateDecay(ret.memory, ret.now).v

\* C26: for a record that is not modified, calculateDecay does not decrease
\* as now advances from lastAccessedAt on, so a record returned by
\* getDecayedMemories for a threshold at one time is returned for the same
\* threshold at every later time.
C26_DecayedStaysDecayed ==
    /\ \A i \in 1..Len(memories) :
           \A t \in memories[i].lastAccessedAt..(MaxClock + FutureTicks) :
               JsLeq(calculateDecay(memories[i], t), calculateDecay(memories[i], t + 1))
    /\ ret.op = "getDecayedMemories" =>
           \A t \in clock..(MaxClock + FutureTicks) :
               LET later == getDecayedMemories(ret.memories, ret.threshold,
                                               [i \in 1..Len(ret.memories) |-> t])
               IN  \A j \in 1..Len(ret.val) :
                       \E k \in 1..Len(later) :
                           /\ later[k].id = ret.val[j].id
                           /\ JsLeq(ret.val[j].decayScore, later[k].decayScore)

\* a record returned at one time, left alone, and still returned with a
\* higher score at the current, later time
C26_Witness ==
    /\ ret.op = "getDecayedMemories"
    /\ ret.threshold = 500000
    /\ ret.val # <<>>
    /\ memories = ret.memories
    /\ clock > ret.reads[1]
    /\ LET now == getDecayedMemories(memories, ret.threshold, <<clock>>)
       IN  now # <<>> /\ now[1].decayScore.v > ret.val[1].decayScore.v

\* C27 as stated: no id that occurs in a toMerge pair also occurs in
\* toStrengthen, for every list of similarity pairs.
C27_OutputsDisjoint ==
    ret.op = "consolidateMemories" =>
        \A n \in 1..Len(ret.val.toMerge) :
            /\ ret.val.toMerge[n][1] \notin Range(ret.val.toStrengthen)
            /\ ret.val.toMerge[n][2] \notin Range(ret.val.toStrengthen)

\* C27 (amended): no single pair contributes to both outputs: an id of a
\* toMerge pair occurs in toStrengthen only if it also occurs in an input
\* pair with 0.7 < similarity <= 0.9.
C27_NoPairInBoth ==
    ret.op = "consolidateMemories" =>
        \A n \in 1..Len(ret.val.toMerge) :
            \A id \in {ret.val.toMerge[n][1], ret.val.toMerge[n][2]} :
                id \in Range(ret.val.toStrengthen) =>
                    \E k \in 1..Len(ret.pairs) :
                        /\ id \in {ret.pairs[k][1], ret.pairs[k][2]}
                        /\ ret.pairs[k][3] > StrengthenThreshold
                        /\ ret.pairs[k][3] <= MergeThreshold

\* m2 is merged with m1 and strengthened by its pair with m3
C27_Witness ==
    /\ ret.op = "consolidateMemories"
    /\ ret.pairs = <<<<"m1", "m2", 950000>>, <<"m2", "m3", 750000>>>>
    /\ ret.val.toMerge = <<<<"m1", "m2">>>>
    /\ ret.val.toStrengthen = <<"m2", "m3">>

\* C28: every id in toMerge and in toStrengthen is the id of a record in
\* the records argument, and no toMerge pair joins a record with itself.
C28_PlansOnGivenRecords ==
    ret.op = "consolidateMemories" =>
        LET given == {ret.memories[i].id : i \in 1..Len(ret.memories)}
        IN  /\ \A n \in 1..Len(ret.val.toMerge) :
                   /\ ret.val.toMerge[n][1] \in given
                   /\ ret.val.toMerge[n][2] \in given
                   /\ ret.val.toMerge[n][1] # ret.val.toMerge[n][2]
            /\ Range(ret.val.toStrengthen) \subseteq given

\* C29: for every valid factors record calculateImportance returns at least
\* the base score 0.5, so classifyImportance of the result is never low.
C29_NeverLow ==
    (ret.op = "calculateImportance" /\ ValidFactors(ret.factors)) =>
        /\ ret.val.k = "fin"
        /\ ret.val.v >= BaseScore
        /\ classifyImportance(ret.val.v) # "low"

\* no factor set: exactly the base score, classified medium
C29_Witness ==
    /\ ret.op = "calculateImportance"
    /\ ~ret.factors.isDecision /\ ~ret.factors.isPreference
    /\ ~ret.factors.isCorrection /\ ~ret.factors.isTodo
    /\ ~ret.factors.mentionedByUser /\ ~ret.factors.recentlyAccessed
    /\ ret.factors.repeatedMention = 0
    /\ ret.factors.uniqueness = 0 /\ ret.factors.specificity = 0
    /\ ret.val = Fin(BaseScore)
    /\ classifyImportance(ret.val.v) = "medium"

\* C30: for baseImportance in [0,1], ageDays >= 0, accessCount = 0 and
\* lastAccessDays >= 7, ageAdjustedImportance returns at most
\* baseImportance, so storing the adjusted value back as the importance of
\* such a record never increases it.
C30_NeverRevisitedFades ==
    [][(/\ ret'.op = "ageAdjustedImportance"
        /\ ret' # ret
        /\ InUnit(ret'.baseImportance)
        /\ ret'.ageTicks >= 0
        /\ ret'.accessCount = 0
        /\ ret'.lastAccessTicks >= RecencyWindowDays * TicksPerDay) =>
            /\ JsLeq(ret'.val, Fin(ret'.baseImportance))
            /\ \A i \in 1..Len(memories) :
                   memories'[i].importance <= memories[i].importance
            /\ \A baseImportance \in BaseImportances, ageTicks \in AgeTicks,
                  lastAccessTicks \in LastAccessTicks :
                   lastAccessTicks >= RecencyWindowDays * TicksPerDay =>
                       JsLeq(ageAdjustedImportance(baseImportance, ageTicks, 0,
                                                   lastAccessTicks),
                             Fin(baseImportance))]_vars

\* the second periodic update of a never-accessed 15-day-old record: the
\* stored importance has already dropped below its first value and drops
\* again
C30_Witness ==
    /\ ret.op = "ageAdjustedImportance"
    /\ ret.accessCount = 0
    /\ ret.lastAccessTicks >= RecencyWindowDays * TicksPerDay
    /\ 0 < ret.baseImportance /\ ret.baseImportance < 600000
    /\ ret.val.v < ret.baseImportance
    /\ memories[1].importance = ret.val.v

\* C23: once a workspace has been initialized, a later init without the
\* force option changes no file or directory in it: the files edited or
\* logged to after the first init keep their content.
C23_InitIdempotent ==
    [][(/\ ret.op = "init"
        /\ ret'.op = "init"
        /\ ret'.n = ret.n + 1
        /\ ~ret'.force) => workspace' = workspace]_vars

\* a second or later init without force, on a later day, after SOUL.md,
\* MEMORY.md, a learnings log and the daily memory file were written to
C23_Witness ==
    /\ ret.op = "init"
    /\ ret.n >= 2
    /\ ~ret.force
    /\ ret.today >= 1
    /\ workspace.files["SOUL.md"] = Edited
    /\ workspace.files["MEMORY.md"] = Edited
    /\ workspace.files[".learnings/LEARNINGS.md"] = Edited
    /\ workspace.daily[ret.today] = Edited
    /\ InitDirs \subseteq workspace.dirs
====
